---- MODULE Spec2Model ----
(***************************************************************************)
(* The Echo State Network orchestrator of echotorch/nn/reservoir/ESN.py:   *)
(* matrix resolution at construction, the forward pass with washout        *)
(* slicing, and the lifecycle operations reset / finalize / reset_hidden.  *)
(*                                                                         *)
(* The two collaborators the orchestrator drives (the reservoir engine     *)
(* ESNCell and the readout RRCell) and the MatrixGenerator class live in   *)
(* other files of the package; they are modelled at their interface        *)
(* (spec.md, section 6) and kept abstract:                                 *)
(*   - the recurrent state is the number of timesteps the engine has been  *)
(*     driven since its state was last reinitialised; timestep t of a      *)
(*     trajectory is identified by the recurrent state reached at it;      *)
(*   - the readout's statistics are the number of (state, target) pairs    *)
(*     accumulated; a fitted map is <<n>>, solved from n pairs, and <<>>   *)
(*     when absent.                                                        *)
(***************************************************************************)
EXTENDS Integers, Sequences, FiniteSets, TLC

\* Bounds of the model.
MaxLen == 3
MaxWashout == 2
MaxHidden == 4
MaxStats == 4

VARIABLES
    esn,      \* the ESN instance: washout, cell (_esn_cell), output (_output), training
    lastOp,   \* the last public operation called, with its arguments
    ret,      \* what that operation returned or raised
    calls,    \* the calls it made on its collaborators, in order
    prev,     \* the instance as it was before that operation (history)
    finalized \* a finalize has succeeded and no reset was called since (history)

vars == <<esn, lastOp, ret, calls, prev, finalized>>

----------------------------------------------------------------------------
\* Results of an operation.

Returned(kind, n) == [kind |-> kind, len |-> n]
Raised(kind) == [kind |-> kind, len |-> 0]
IsError(r) == r.kind \in {"TypeError", "ModeError"}

----------------------------------------------------------------------------
\* Matrix generators and their resolution.

\* A value handed to one of the three generator parameters: whether it is an
\* instance of mg.MatrixGenerator, whether it has a generate attribute, and
\* whether it is callable. Every MatrixGenerator has generate.
GeneratorValues(name) ==
    { g \in [name : {name}, isMatrixGenerator : BOOLEAN, hasGenerate : BOOLEAN,
             isCallable : BOOLEAN] : g.isMatrixGenerator => g.hasGenerate }

\* g.generate(size=size): the matrix a MatrixGenerator produces.
Generate(g, size) == [src |-> "generate", gen |-> g, size |-> size]

\* g(size=size): the matrix a plain callable produces.
CallGenerator(g, size) == [src |-> "call", gen |-> g, size |-> size]

GeneratorCall(op, g, size) == [obj |-> g.name, op |-> op, size |-> size]

\* A plausible slip: the callable test made before the isinstance test.
ResolveCallableFirst(g, size) ==
    IF g.isCallable
    THEN [m |-> CallGenerator(g, size), calls |-> <<GeneratorCall("call", g, size)>>]
    ELSE IF g.isMatrixGenerator
    THEN [m |-> Generate(g, size), calls |-> <<GeneratorCall("generate", g, size)>>]
    ELSE [m |-> g, calls |-> <<>>]

\* One if / elif / else chain of _generate_matrices.
ResolveMatrix(g, size) ==
    IF g.isMatrixGenerator
    THEN [m |-> Generate(g, size), calls |-> <<GeneratorCall("generate", g, size)>>]
    ELSE IF g.isCallable
    THEN [m |-> CallGenerator(g, size), calls |-> <<GeneratorCall("call", g, size)>>]
    ELSE [m |-> g, calls |-> <<>>]

\* _generate_matrices: W, then Win, then Wbias.
GenerateMatrices(hidden_dim, input_dim, w_generator, win_generator, wbias_generator) ==
    LET w == ResolveMatrix(w_generator, <<hidden_dim, hidden_dim>>)
        w_in == ResolveMatrix(win_generator, <<hidden_dim, input_dim>>)
        w_bias == ResolveMatrix(wbias_generator, <<hidden_dim>>)
    IN  [w |-> w.m, w_in |-> w_in.m, w_bias |-> w_bias.m,
         calls |-> w.calls \o w_in.calls \o w_bias.calls]

----------------------------------------------------------------------------
\* The reservoir engine (ESNCell), at its interface.

\* ESNCell(...): holds the three matrices; the recurrent state starts at its
\* initial condition.
ESNCellInit(w, w_in, w_bias) ==
    [w |-> w, w_in |-> w_in, w_bias |-> w_bias, hidden |-> 0]

\* self._esn_cell(u, reset_state): the trajectory over the L timesteps of u,
\* from the initial condition when reset_state, else from the current state.
ESNCellForward(cell, L, reset_state) ==
    LET base == IF reset_state THEN 0 ELSE cell.hidden
    IN  [cell |-> [cell EXCEPT !.hidden = base + L],
         traj |-> [t \in 1..L |-> base + t]]

\* self._esn_cell.reset_hidden()
ESNCellResetHidden(cell) == [cell EXCEPT !.hidden = 0]

----------------------------------------------------------------------------
\* The readout (RRCell), at its interface.

RRCellInit == [stats |-> 0, w_out |-> <<>>]

\* self._output(states, targets): accumulate when targets are given (valid
\* only before finalize), predict when they are None (valid only after).
RRCellForward(o, states, hasTargets, targets) ==
    IF hasTargets
    THEN IF o.w_out # <<>>
         THEN [output |-> o, ret |-> Raised("ModeError")]
         ELSE [output |-> [o EXCEPT !.stats = @ + Len(states)],
               ret |-> Returned("accumulated", Len(states))]
    ELSE IF o.w_out = <<>>
         THEN [output |-> o, ret |-> Raised("ModeError")]
         ELSE [output |-> o, ret |-> Returned("prediction", Len(states))]

\* self._output.finalize(): solves and stores the map; fails when no
\* statistics were accumulated.
RRCellFinalize(o) ==
    IF o.stats = 0
    THEN [output |-> o, ret |-> Raised("ModeError")]
    ELSE [output |-> [o EXCEPT !.w_out = <<o.stats>>], ret |-> Returned("None", 0)]

\* self._output.reset(): discards the fitted map and the statistics.
RRCellReset(o) == [stats |-> 0, w_out |-> <<>>]

----------------------------------------------------------------------------
\* The ESN orchestrator.

\* torch.nn.Module.train(mode), as reset and finalize call it.
Train(e, mode) == [e EXCEPT !.training = mode]

\* ESN.__init__: resolves the matrices, builds the cell and the readout. A
\* new module is in training mode.
ESNInit(a) ==
    LET g == GenerateMatrices(a.hidden_dim, a.input_dim, a.w_generator,
                              a.win_generator, a.wbias_generator)
    IN  [esn |-> [hidden_dim |-> a.hidden_dim,
                  input_dim |-> a.input_dim,
                  washout |-> a.washout,
                  w_generator |-> a.w_generator,
                  win_generator |-> a.win_generator,
                  wbias_generator |-> a.wbias_generator,
                  cell |-> ESNCellInit(g.w, g.w_in, g.w_bias),
                  output |-> RRCellInit,
                  training |-> TRUE],
         ret |-> Returned("None", 0),
         calls |-> g.calls]

\* A plausible slip: the slice taken one timestep late.
PySliceFromNext(seq, k) ==
    IF k + 1 >= Len(seq) THEN <<>> ELSE SubSeq(seq, k + 2, Len(seq))

\* seq[:, k:] along the time axis, as Python slices: from index k (counted
\* from the end when k is negative) to the end, empty when k is past the end.
PySliceFrom(seq, k) ==
    LET n == Len(seq)
        from == IF k >= 0 THEN k ELSE IF n + k >= 0 THEN n + k ELSE 0
    IN  IF from >= n THEN <<>> ELSE SubSeq(seq, from + 1, n)

\* The targets of a sequence of L timesteps, one per timestep.
TargetsOf(L) == [t \in 1..L |-> t]

\* A plausible slip: y handed to the readout whatever the mode.
ForwardTargetsAlwaysY(training, yGiven, y, washout) ==
    IF ~yGiven
    THEN IF training
         THEN [raises |-> TRUE, hasTargets |-> FALSE, targets |-> <<>>]
         ELSE [raises |-> FALSE, hasTargets |-> FALSE, targets |-> <<>>]
    ELSE [raises |-> FALSE, hasTargets |-> TRUE, targets |-> PySliceFrom(y, washout)]

\* A plausible slip: the mode test inverted.
ForwardTargetsInverted(training, yGiven, y, washout) ==
    IF training
    THEN [raises |-> FALSE, hasTargets |-> FALSE, targets |-> <<>>]
    ELSE IF ~yGiven
         THEN [raises |-> TRUE, hasTargets |-> FALSE, targets |-> <<>>]
         ELSE [raises |-> FALSE, hasTargets |-> TRUE, targets |-> PySliceFrom(y, washout)]

\* The second argument of the readout call in forward: None when not
\* training, y[:, washout:] when training, which raises TypeError on a y
\* that is None.
ForwardTargets(training, yGiven, y, washout) ==
    IF ~training
    THEN [raises |-> FALSE, hasTargets |-> FALSE, targets |-> <<>>]
    ELSE IF ~yGiven
         THEN [raises |-> TRUE, hasTargets |-> FALSE, targets |-> <<>>]
         ELSE [raises |-> FALSE, hasTargets |-> TRUE, targets |-> PySliceFrom(y, washout)]

CellCall(L, reset_state, traj) ==
    [obj |-> "_esn_cell", op |-> "forward", L |-> L, reset_state |-> reset_state,
     traj |-> traj]

OutputCall(states, hasTargets, targets) ==
    [obj |-> "_output", op |-> "forward", states |-> states,
     hasTargets |-> hasTargets, targets |-> targets]

\* ESN.forward(u, y, reset_state), u of L timesteps.
Forward(e, L, yGiven, reset_state) ==
    LET c == ESNCellForward(e.cell, L, reset_state)
        states == PySliceFrom(c.traj, e.washout)
        t == ForwardTargets(e.training, yGiven, TargetsOf(L), e.washout)
        driven == [e EXCEPT !.cell = c.cell]
        cellCall == CellCall(L, reset_state, c.traj)
    IN  IF t.raises
        THEN [esn |-> driven, ret |-> Raised("TypeError"), calls |-> <<cellCall>>]
        ELSE LET o == RRCellForward(e.output, states, t.hasTargets, t.targets)
             IN  [esn |-> [driven EXCEPT !.output = o.output],
                  ret |-> o.ret,
                  calls |-> <<cellCall, OutputCall(states, t.hasTargets, t.targets)>>]

\* A plausible slip: reset without the return to training mode.
ResetNoTrain(e) ==
    [esn |-> [e EXCEPT !.output = RRCellReset(e.output)],
     ret |-> Returned("None", 0),
     calls |-> <<[obj |-> "_output", op |-> "reset"]>>]

\* A plausible slip: reset that only returns to training mode.
ResetNoOutputReset(e) ==
    [esn |-> Train(e, TRUE), ret |-> Returned("None", 0), calls |-> <<>>]

\* ESN.reset()
Reset(e) ==
    [esn |-> Train([e EXCEPT !.output = RRCellReset(e.output)], TRUE),
     ret |-> Returned("None", 0),
     calls |-> <<[obj |-> "_output", op |-> "reset"]>>]

\* A plausible slip: the mode switched before the readout is finalized.
FinalizeTrainFirst(e) ==
    LET f == RRCellFinalize(e.output)
    IN  [esn |-> [Train(e, FALSE) EXCEPT !.output = f.output],
         ret |-> f.ret,
         calls |-> <<[obj |-> "_output", op |-> "finalize"]>>]

\* ESN.finalize(): a failure of the readout's finalize propagates, and the
\* mode is then left as it was.
Finalize(e) ==
    LET f == RRCellFinalize(e.output)
    IN  IF IsError(f.ret)
        THEN [esn |-> [e EXCEPT !.output = f.output],
              ret |-> f.ret,
              calls |-> <<[obj |-> "_output", op |-> "finalize"]>>]
        ELSE [esn |-> Train([e EXCEPT !.output = f.output], FALSE),
              ret |-> Returned("None", 0),
              calls |-> <<[obj |-> "_output", op |-> "finalize"]>>]

\* A plausible slip: the readout reset along with the recurrent state.
ResetHiddenAndOutput(e) ==
    [esn |-> [e EXCEPT !.cell = ESNCellResetHidden(e.cell),
                       !.output = RRCellReset(e.output)],
     ret |-> Returned("None", 0),
     calls |-> <<[obj |-> "_esn_cell", op |-> "reset_hidden"]>>]

\* ESN.reset_hidden()
ResetHidden(e) ==
    [esn |-> [e EXCEPT !.cell = ESNCellResetHidden(e.cell)],
     ret |-> Returned("None", 0),
     calls |-> <<[obj |-> "_esn_cell", op |-> "reset_hidden"]>>]

----------------------------------------------------------------------------
\* The state machine.

Op(name, L, yGiven, reset_state) ==
    [name |-> name, L |-> L, yGiven |-> yGiven, reset_state |-> reset_state]

\* The values the constructor's arguments are drawn from.
HiddenDims == {2, 3}
InputDims == {1, 2}
ConstructorArgs ==
    [input_dim : InputDims, hidden_dim : HiddenDims, washout : 0..MaxWashout,
     w_generator : GeneratorValues("w_generator"),
     win_generator : GeneratorValues("win_generator"),
     wbias_generator : GeneratorValues("wbias_generator")]

\* The running model is built from generators of one kind per instance.
SameKind(a) ==
    \A f \in {"isMatrixGenerator", "hasGenerate", "isCallable"} :
        /\ a.w_generator[f] = a.win_generator[f]
        /\ a.w_generator[f] = a.wbias_generator[f]

RunningArgs ==
    { a \in ConstructorArgs :
        /\ a.input_dim = 1 /\ a.hidden_dim = 2
        /\ SameKind(a)
        /\ a.w_generator.hasGenerate = a.w_generator.isMatrixGenerator
        /\ (a.w_generator.isMatrixGenerator => ~a.w_generator.isCallable) }

\* An operation's outcome becomes the state; the state before it is kept.
Step(r, op) ==
    /\ prev' = esn
    /\ esn' = r.esn
    /\ ret' = r.ret
    /\ calls' = r.calls
    /\ lastOp' = op
    /\ finalized' = IF op.name = "reset" THEN FALSE
                    ELSE IF op.name = "finalize" /\ ~IsError(r.ret) THEN TRUE
                    ELSE finalized

\* The state after construction.
Init ==
    \E a \in RunningArgs :
        LET r == ESNInit(a)
        IN  /\ esn = r.esn
            /\ prev = r.esn
            /\ ret = r.ret
            /\ calls = r.calls
            /\ lastOp = Op("__init__", 0, FALSE, FALSE)
            /\ finalized = FALSE

DoForward ==
    \E L \in 1..MaxLen, yGiven \in BOOLEAN, reset_state \in BOOLEAN :
        LET r == Forward(esn, L, yGiven, reset_state)
        IN  /\ r.esn.cell.hidden <= MaxHidden
            /\ r.esn.output.stats <= MaxStats
            /\ Step(r, Op("forward", L, yGiven, reset_state))

DoReset == Step(Reset(esn), Op("reset", 0, FALSE, FALSE))

DoFinalize == Step(Finalize(esn), Op("finalize", 0, FALSE, FALSE))

DoResetHidden == Step(ResetHidden(esn), Op("reset_hidden", 0, FALSE, FALSE))

Next == DoForward \/ DoReset \/ DoFinalize \/ DoResetHidden

Spec == Init /\ [][Next]_vars

\* Construction over every combination of generator values, and the first
\* operation on the model built.
Unbuilt == [washout |-> 0, training |-> TRUE]

InitCtor ==
    /\ esn = Unbuilt
    /\ prev = Unbuilt
    /\ ret = Returned("None", 0)
    /\ calls = <<>>
    /\ lastOp = Op("new", 0, FALSE, FALSE)
    /\ finalized = FALSE

DoConstruct ==
    /\ lastOp.name = "new"
    /\ \E a \in ConstructorArgs :
           /\ Step(ESNInit(a), Op("__init__", 0, FALSE, FALSE))

DoFirstOperation == lastOp.name = "__init__" /\ Next

NextCtor == DoConstruct \/ DoFirstOperation

SpecCtor == InitCtor /\ [][NextCtor]_vars

----------------------------------------------------------------------------
\* Properties.

IsForward == lastOp.name = "forward"

\* The calls the last operation made on the readout's forward.
ReadoutCalls ==
    { i \in 1..Len(calls) : calls[i].obj = "_output" /\ calls[i].op = "forward" }

\* C1, as the specification states it: a forward call with targets in
\* inference mode, or without targets in training mode, raises an error and
\* is never answered as if the mismatch were not there. (Read generously: any
\* error counts, where the specification names ModeError.)
C1_MismatchRaises ==
    (IsForward /\ prev.training # lastOp.yGiven) => IsError(ret)

\* C1, amended: a forward call without targets in training mode raises
\* TypeError, after the reservoir was driven and before the readout is called;
\* a forward call with targets in inference mode ignores them: the readout is
\* called with no targets, is left unchanged and its prediction is returned.
C1_MismatchOutcome ==
    /\ (IsForward /\ prev.training /\ ~lastOp.yGiven) =>
           /\ ret = Raised("TypeError")
           /\ ReadoutCalls = {}
           /\ esn.output = prev.output
    /\ (IsForward /\ ~prev.training /\ lastOp.yGiven) =>
           /\ ret.kind = "prediction"
           /\ Len(calls) = 2 /\ ReadoutCalls = {2}
           /\ ~calls[2].hasTargets
           /\ esn.output = prev.output

\* C1: targets were supplied in inference mode and a prediction came back.
C1_Witness ==
    /\ IsForward /\ ~prev.training /\ lastOp.yGiven
    /\ ret.kind = "prediction"

\* C2: for washout W < L, in both modes, the states handed to the readout are
\* the trajectory's timesteps W..L-1 in order (L-W of them, none of the first
\* W), and in training mode the targets are the targets of those same
\* timesteps, as many as the states.
C2_WashoutSlice ==
    (IsForward /\ esn.washout < lastOp.L /\ (~prev.training \/ lastOp.yGiven)) =>
        LET W == esn.washout
            L == lastOp.L
        IN  /\ Len(calls) = 2 /\ ReadoutCalls = {2}
            /\ Len(calls[1].traj) = L
            /\ Len(calls[2].states) = L - W
            /\ \A i \in 1..(L - W) : calls[2].states[i] = calls[1].traj[W + i]
            /\ \A i \in 1..W : \A j \in 1..Len(calls[2].states) :
                   calls[2].states[j] # calls[1].traj[i]
            /\ calls[2].hasTargets = prev.training
            /\ prev.training =>
                   /\ Len(calls[2].targets) = Len(calls[2].states)
                   /\ \A i \in 1..(L - W) : calls[2].targets[i] = TargetsOf(L)[W + i]

\* C2: a training call with 0 < W < L reached the readout.
C2_Witness ==
    /\ IsForward /\ prev.training /\ lastOp.yGiven
    /\ 0 < esn.washout /\ esn.washout + 1 < lastOp.L
    /\ ReadoutCalls = {2}
    /\ Len(calls[2].states) = lastOp.L - esn.washout

\* C3: a forward call that fails leaves the recurrent state as it was before
\* the call and hands nothing to the readout.
C3_FailedForwardLeavesState ==
    (IsForward /\ IsError(ret)) =>
        /\ esn.cell = prev.cell
        /\ ReadoutCalls = {}

\* C4: a forward call on a sequence no longer than the washout raises
\* ConfigurationError and hands no slice to the readout. (Stated for the calls
\* whose targets suit the mode, which have no other reason to fail.)
C4_ShortSequenceRaises ==
    (IsForward /\ esn.washout >= lastOp.L /\ prev.training = lastOp.yGiven) =>
        /\ ret.kind = "ConfigurationError"
        /\ ReadoutCalls = {}

\* C5: finalize with no accumulated statistics raises ModeError, stores no
\* fitted map and leaves the model in training mode.
C5_FinalizeWithoutData ==
    (lastOp.name = "finalize" /\ prev.output.stats = 0) =>
        /\ ret = Raised("ModeError")
        /\ esn.output.w_out = <<>>
        /\ esn.output = prev.output
        /\ esn.training

\* C5: finalize was called on a model holding no statistics and failed.
C5_Witness ==
    /\ lastOp.name = "finalize" /\ prev.output.stats = 0
    /\ IsError(ret)

\* C6: the model is in inference mode exactly when a finalize has succeeded
\* with no reset after it; reset leaves it in training mode, a successful
\* finalize in inference mode, and forward and reset_hidden leave the mode as
\* it was.
C6_ModeFollowsLifecycle ==
    /\ esn.training = ~finalized
    /\ lastOp.name = "reset" => esn.training
    /\ (lastOp.name = "finalize" /\ ~IsError(ret)) => ~esn.training
    /\ lastOp.name \in {"forward", "reset_hidden"} => esn.training = prev.training

\* C6: a reset brought a finalized model back to training mode.
C6_Witness ==
    /\ lastOp.name = "reset"
    /\ ~prev.training
    /\ esn.training /\ ~finalized

\* C7: from every reachable state, reset followed by reset leaves the instance
\* as a single reset does: in training mode, with no fitted map and no
\* accumulated statistics.
C7_ResetIdempotent ==
    LET once == Reset(esn).esn
        twice == Reset(once).esn
    IN  /\ twice = once
        /\ once.training
        /\ once.output.w_out = <<>>
        /\ once.output.stats = 0

\* C7: reset acted on a finalized model holding a fitted map, and a second
\* reset would change nothing.
C7_Witness ==
    /\ lastOp.name = "reset"
    /\ prev.output.w_out # <<>> /\ prev.output.stats > 0
    /\ Reset(esn).esn = esn

\* The generator calls the constructor made for one parameter.
CallsFor(name) == { i \in 1..Len(calls) : calls[i].obj = name }

\* One weight slot resolved with `generates` as the test for a generator:
\* generate called once with the slot's size and its result kept; else, for a
\* callable, the value called once with that size and its result kept; else
\* the value itself kept and nothing called.
SlotResolved(generates, g, m, size) ==
    IF generates
    THEN /\ m = Generate(g, size)
         /\ \E i \in 1..Len(calls) :
                /\ CallsFor(g.name) = {i}
                /\ calls[i] = GeneratorCall("generate", g, size)
    ELSE IF g.isCallable
    THEN /\ m = CallGenerator(g, size)
         /\ \E i \in 1..Len(calls) :
                /\ CallsFor(g.name) = {i}
                /\ calls[i] = GeneratorCall("call", g, size)
    ELSE /\ m = g
         /\ CallsFor(g.name) = {}

\* The constructor's generator calls come in the order internal, input, bias.
SlotRank(name) ==
    CASE name = "w_generator" -> 1
      [] name = "win_generator" -> 2
      [] name = "wbias_generator" -> 3

CallsInSlotOrder ==
    \A i, j \in 1..Len(calls) : i < j => SlotRank(calls[i].obj) < SlotRank(calls[j].obj)

\* No operation on a built model calls a generator or replaces a matrix.
ResolvedOnlyAtConstruction ==
    lastOp.name \notin {"new", "__init__"} =>
        /\ \A i \in 1..Len(calls) :
               calls[i].obj \notin {"w_generator", "win_generator", "wbias_generator"}
        /\ esn.cell.w = prev.cell.w
        /\ esn.cell.w_in = prev.cell.w_in
        /\ esn.cell.w_bias = prev.cell.w_bias

\* C8, as the specification states it: each slot is resolved by capability, a
\* value exposing generate having generate invoked; once per slot, in the
\* order internal, input, bias, with sizes (hidden, hidden), (hidden, input)
\* and hidden; no later operation resolves a matrix again.
C8_ResolvedByCapability ==
    /\ ResolvedOnlyAtConstruction
    /\ lastOp.name = "__init__" =>
        /\ SlotResolved(esn.w_generator.hasGenerate, esn.w_generator, esn.cell.w,
                        <<esn.hidden_dim, esn.hidden_dim>>)
        /\ SlotResolved(esn.win_generator.hasGenerate, esn.win_generator, esn.cell.w_in,
                        <<esn.hidden_dim, esn.input_dim>>)
        /\ SlotResolved(esn.wbias_generator.hasGenerate, esn.wbias_generator,
                        esn.cell.w_bias, <<esn.hidden_dim>>)
        /\ CallsInSlotOrder

\* C8, amended: as above, with generate invoked on the instances of
\* MatrixGenerator; a value that only exposes generate is called when it is
\* callable and kept as the matrix when it is not.
C8_ResolvedByClass ==
    /\ ResolvedOnlyAtConstruction
    /\ lastOp.name = "__init__" =>
        /\ SlotResolved(esn.w_generator.isMatrixGenerator, esn.w_generator, esn.cell.w,
                        <<esn.hidden_dim, esn.hidden_dim>>)
        /\ SlotResolved(esn.win_generator.isMatrixGenerator, esn.win_generator,
                        esn.cell.w_in, <<esn.hidden_dim, esn.input_dim>>)
        /\ SlotResolved(esn.wbias_generator.isMatrixGenerator, esn.wbias_generator,
                        esn.cell.w_bias, <<esn.hidden_dim>>)
        /\ CallsInSlotOrder

\* C8: a model was built from a callable MatrixGenerator, a plain callable and
\* a literal matrix, with distinct hidden and input dimensions.
C8_Witness ==
    /\ lastOp.name = "__init__"
    /\ esn.hidden_dim # esn.input_dim
    /\ esn.w_generator.isMatrixGenerator /\ esn.w_generator.isCallable
    /\ ~esn.win_generator.hasGenerate /\ esn.win_generator.isCallable
    /\ ~esn.wbias_generator.hasGenerate /\ ~esn.wbias_generator.isCallable
    /\ esn.cell.w.src = "generate" /\ esn.cell.w_in.src = "call"
    /\ esn.cell.w_bias = esn.wbias_generator
    /\ Len(calls) = 2

\* C9: every forward call drives the reservoir over the L timesteps, in both
\* modes; in inference mode no forward or reset_hidden call changes the
\* readout's statistics or fitted map; a training-mode forward call with
\* targets adds the L-W washed timesteps to the statistics and leaves the
\* fitted map alone, and one without targets leaves the readout unchanged.
C9_ReadoutChangesOnlyInTraining ==
    /\ IsForward =>
           /\ Len(calls) >= 1
           /\ calls[1] = CellCall(lastOp.L, lastOp.reset_state,
                  [t \in 1..lastOp.L |->
                      (IF lastOp.reset_state THEN 0 ELSE prev.cell.hidden) + t])
           /\ esn.cell.hidden =
                  (IF lastOp.reset_state THEN 0 ELSE prev.cell.hidden) + lastOp.L
    /\ (lastOp.name \in {"forward", "reset_hidden"} /\ ~prev.training) =>
           esn.output = prev.output
    /\ (IsForward /\ prev.training /\ lastOp.yGiven) =>
           /\ esn.output.stats = prev.output.stats +
                  (IF lastOp.L > esn.washout THEN lastOp.L - esn.washout ELSE 0)
           /\ esn.output.w_out = prev.output.w_out
    /\ (IsForward /\ prev.training /\ ~lastOp.yGiven) => esn.output = prev.output

\* C9: an inference-mode forward call continued the recurrent state and left
\* a fitted readout as it was.
C9_Witness ==
    /\ IsForward /\ ~prev.training /\ ~lastOp.reset_state
    /\ prev.cell.hidden > 0 /\ esn.cell.hidden > prev.cell.hidden
    /\ esn.output.w_out # <<>> /\ esn.output = prev.output

\* C10: reset leaves the reservoir's matrices and recurrent state as they
\* were; reset_hidden reinitialises the recurrent state and leaves the
\* matrices, the readout and the mode as they were.
C10_LifecycleFrame ==
    /\ lastOp.name = "reset" => esn.cell = prev.cell
    /\ lastOp.name = "reset_hidden" =>
           /\ esn.cell = [prev.cell EXCEPT !.hidden = 0]
           /\ esn.output = prev.output
           /\ esn.training = prev.training

\* C10: reset_hidden acted on a driven reservoir whose readout held statistics.
C10_Witness ==
    /\ lastOp.name = "reset_hidden"
    /\ prev.cell.hidden > 0 /\ esn.cell.hidden = 0
    /\ prev.output.stats > 0 /\ esn.output = prev.output

====
